---- MODULE Spec2Model ----
(***************************************************************************)
(* A model of the pngme chunk / chunk-type codec (src/src/chunk.rs and     *)
(* src/src/chunk_type.rs).                                                 *)
(*                                                                         *)
(* Bytes are naturals in 0..255.  A u32 is a record of its two 16-bit     *)
(* halves, hi and lo (the model checker's integers are narrower than a     *)
(* u32).  A text is a sequence of Unicode code points; its bytes are its   *)
(* UTF-8 encoding.                                                         *)
(***************************************************************************)
EXTENDS Integers, Sequences, FiniteSets, TLC

(***************************************************************************)
(* Bounds of the model.                                                    *)
(***************************************************************************)
MaxTextLen == 5
MaxPayload == 2
MaxTrail == 2

(***************************************************************************)
(* Bit arithmetic on bytes and on u32 values.  p is the weight of a bit,   *)
(* a power of two.                                                         *)
(***************************************************************************)
AndBit(a, b, p) == ((a \div p) % 2) * ((b \div p) % 2) * p

XorBit(a, b, p) == (((a \div p) + (b \div p)) % 2) * p

\* a & b on bytes
BitAnd(a, b) ==
    AndBit(a, b, 1) + AndBit(a, b, 2) + AndBit(a, b, 4) + AndBit(a, b, 8)
        + AndBit(a, b, 16) + AndBit(a, b, 32) + AndBit(a, b, 64)
        + AndBit(a, b, 128)

\* a ^ b on bytes
BitXor(a, b) ==
    XorBit(a, b, 1) + XorBit(a, b, 2) + XorBit(a, b, 4) + XorBit(a, b, 8)
        + XorBit(a, b, 16) + XorBit(a, b, 32) + XorBit(a, b, 64)
        + XorBit(a, b, 128)

\* a ^ b on 16-bit values
BitXor16(a, b) ==
    (BitXor(a \div 256, b \div 256) * 256) + BitXor(a % 256, b % 256)

\* u32::from_be_bytes
U32FromBeBytes(b) == [hi |-> (b[1] * 256) + b[2], lo |-> (b[3] * 256) + b[4]]

\* to_le_bytes in the place of to_be_bytes
U32ToBeBytes_le(w) == <<w.lo % 256, w.lo \div 256, w.hi % 256, w.hi \div 256>>

\* u32::to_be_bytes
U32ToBeBytes(w) == <<w.hi \div 256, w.hi % 256, w.lo \div 256, w.lo % 256>>

\* `n as u32` for a usize n: n modulo 2^32 (the lengths of the model stay
\* below 2^31)
UsizeAsU32(n) == [hi |-> (n \div 65536) % 65536, lo |-> n % 65536]

\* `w as usize > n` for a u32 w and a usize n below 2^31
U32Gt(w, n) == w.hi >= 32768 \/ (w.hi * 65536) + w.lo > n

\* `w as usize` for a u32 w below 2^31
U32AsUsize(w) == (w.hi * 65536) + w.lo

(***************************************************************************)
(* crc::crc32::checksum_ieee: CRC-32 with the reflected IEEE 802.3         *)
(* polynomial 0xEDB88320, initial value and final xor 0xFFFFFFFF.          *)
(***************************************************************************)
U32Xor(a, b) == [hi |-> BitXor16(a.hi, b.hi), lo |-> BitXor16(a.lo, b.lo)]

U32Shr1(a) == [hi |-> a.hi \div 2, lo |-> ((a.hi % 2) * 32768) + (a.lo \div 2)]

U32Ones == [hi |-> 65535, lo |-> 65535]

IEEE == [hi |-> 60856, lo |-> 33568]

U32 == [hi : 0..65535, lo : 0..65535]

\* one shift of the bitwise algorithm
CrcShift[c \in U32] ==
    IF c.lo % 2 = 1 THEN U32Xor(U32Shr1(c), IEEE) ELSE U32Shr1(c)

\* one byte of input: xor into the low byte, then eight shifts
CrcUpdate(c, byte) ==
    CrcShift[CrcShift[CrcShift[CrcShift[CrcShift[CrcShift[CrcShift[CrcShift[
        U32Xor(c, [hi |-> 0, lo |-> byte])]]]]]]]]

RECURSIVE CrcFold(_, _)
CrcFold(input, n) ==
    IF n = 0 THEN U32Ones ELSE CrcUpdate(CrcFold(input, n - 1), input[n])

checksum_ieee(input) == U32Xor(CrcFold(input, Len(input)), U32Ones)

(***************************************************************************)
(* Inputs of the model.                                                    *)
(***************************************************************************)
\* code points of the texts given to from_str: R u S s t 1 and e-acute
TextChars == {82, 117, 83, 115, 116, 49, 233}

\* bytes of the raw tags given to ChunkType::try_from
RawBytes == {0, 64, 65, 90, 91, 96, 97, 122, 123, 255}

\* "RuSt", "Rust" and the bytes of "R1St"
ChunkTags == {<<82, 117, 83, 116>>, <<82, 117, 115, 116>>, <<82, 49, 83, 116>>}

PayloadBytes == {0, 255}

TrailBytes == {0, 255}

CorruptBytes == {0, 1, 255}

SeqsUpTo(S, n) == UNION {[1..k -> S] : k \in 0..n}

(***************************************************************************)
(* chunk_type.rs                                                           *)
(***************************************************************************)
NoTag == [bytes |-> <<>>]

TagOk(t) == [kind |-> "Ok", err |-> "none", len |-> 0, tag |-> t]

TagErr(e, n) == [kind |-> "Err", err |-> e, len |-> n, tag |-> NoTag]

NoTagResult == [kind |-> "None", err |-> "none", len |-> 0, tag |-> NoTag]

\* str::as_bytes: the UTF-8 encoding of a text
Utf8(cp) ==
    IF cp < 128 THEN <<cp>>
    ELSE IF cp < 2048 THEN <<192 + (cp \div 64), 128 + (cp % 64)>>
    ELSE <<224 + (cp \div 4096), 128 + ((cp \div 64) % 64), 128 + (cp % 64)>>

RECURSIVE str_as_bytes(_)
str_as_bytes(s) == IF s = <<>> THEN <<>> ELSE Utf8(Head(s)) \o str_as_bytes(Tail(s))

bytes(t) == t.bytes

\* a check that lets the ASCII digits through as well
IsLetter_alphanumeric(b) ==
    (b >= 97 /\ b <= 122) \/ (b >= 65 /\ b <= 90) \/ (b >= 48 /\ b <= 57)

IsLetter(b) == (b >= 97 /\ b <= 122) \/ (b >= 65 /\ b <= 90)

is_critical(t) == BitAnd(t.bytes[1], 32) # 32

is_public(t) == BitAnd(t.bytes[2], 32) # 32

is_reserved_bit_valid(t) == BitAnd(t.bytes[3], 32) # 32

\* the test of the other three queries, copied to the fourth
is_safe_to_copy_negated(t) == BitAnd(t.bytes[4], 32) # 32

is_safe_to_copy(t) == BitAnd(t.bytes[4], 32) = 32

\* the reserved bit left out of the validity
is_valid_chars_only(t) == \A i \in 1..4 : IsLetter(t.bytes[i])

is_valid(t) ==
    LET valid_chars == \A i \in 1..4 : IsLetter(t.bytes[i])
    IN  valid_chars /\ is_reserved_bit_valid(t)

ChunkType_try_from(raw) == TagOk([bytes |-> raw])

\* the length check on the characters of the text, not on its bytes
from_str_chars(s) ==
    LET bs == str_as_bytes(s)
        valid_chars == \A i \in 1..Len(bs) : IsLetter(bs[i])
    IN  IF Len(s) # 4 THEN TagErr("ByteLengthError", Len(s))
        ELSE IF ~valid_chars THEN TagErr("InvalidCharacter", 0)
        ELSE ChunkType_try_from(SubSeq(bs, 1, 4))

from_str(s) ==
    LET bs == str_as_bytes(s)
        valid_chars == \A i \in 1..Len(bs) : IsLetter(bs[i])
    IN  IF Len(bs) # 4 THEN TagErr("ByteLengthError", Len(bs))
        ELSE IF ~valid_chars THEN TagErr("InvalidCharacter", 0)
        ELSE ChunkType_try_from(<<bs[1], bs[2], bs[3], bs[4]>>)

(***************************************************************************)
(* chunk.rs                                                                *)
(***************************************************************************)
DATA_LENGTH_BYTES == 4
CHUNK_TYPE_BYTES == 4
CRC_BYTES == 4
METADATA_BYTES == DATA_LENGTH_BYTES + CHUNK_TYPE_BYTES + CRC_BYTES

NoChunk == [chunk_type |-> NoTag, data |-> <<>>]

ZeroU32 == [hi |-> 0, lo |-> 0]

Chunk_new(chunk_type, data) == [chunk_type |-> chunk_type, data |-> data]

length(c) == Len(c.data)

\* the checksum of the data alone, the chunk type left out
crc_data_only(c) == checksum_ieee(c.data)

crc(c) == checksum_ieee(bytes(c.chunk_type) \o c.data)

\* the checksum written before the data
as_bytes_crc_first(c) ==
    LET data_length == UsizeAsU32(Len(c.data))
    IN  U32ToBeBytes(data_length) \o bytes(c.chunk_type)
            \o U32ToBeBytes(crc(c)) \o c.data

as_bytes(c) ==
    LET data_length == UsizeAsU32(Len(c.data))
    IN  U32ToBeBytes(data_length) \o bytes(c.chunk_type) \o c.data
            \o U32ToBeBytes(crc(c))

\* the outcomes of Chunk::try_from: a chunk, an error value or a panic
ChunkOk(c) ==
    [kind |-> "Ok", err |-> "none", chunk |-> c,
     expected |-> ZeroU32, actual |-> ZeroU32]

ChunkErr(e) ==
    [kind |-> "Err", err |-> e, chunk |-> NoChunk,
     expected |-> ZeroU32, actual |-> ZeroU32]

InvalidCrc(exp, act) ==
    [kind |-> "Err", err |-> "InvalidCrc", chunk |-> NoChunk,
     expected |-> exp, actual |-> act]

Panic ==
    [kind |-> "Panic", err |-> "none", chunk |-> NoChunk,
     expected |-> ZeroU32, actual |-> ZeroU32]

NoResult ==
    [kind |-> "None", err |-> "none", chunk |-> NoChunk,
     expected |-> ZeroU32, actual |-> ZeroU32]

\* slice::split_at(mid), which panics when mid > len
split_at(v, mid) == <<SubSeq(v, 1, mid), SubSeq(v, mid + 1, Len(v))>>

\* an off-by-one minimum
InputTooSmall_le(value) == Len(value) <= METADATA_BYTES

InputTooSmall(value) == Len(value) < METADATA_BYTES

\* the data taken as everything but the last four bytes of the input
DataSplit_remainder(rest, len) == split_at(rest, Len(rest) - CRC_BYTES)

\* `value.split_at(data_length)`, reached when data_length <= value.len()
DataSplit(rest, len) == split_at(rest, U32AsUsize(len))

\* the tail of try_from, from the slicing of the payload on: ty is the
\* chunk type, len the declared length and rest the input after both
TakeData(ty, len, rest) ==
    IF U32Gt(len, Len(rest)) THEN Panic
    ELSE
        LET d == DataSplit(rest, len)
        IN  IF CRC_BYTES > Len(d[2]) THEN Panic
            ELSE
                LET crc_bytes == split_at(d[2], CRC_BYTES)[1]
                    new == [chunk_type |-> ty, data |-> d[1]]
                    actual_crc == crc(new)
                    expected_crc == U32FromBeBytes(crc_bytes)
                IN  IF expected_crc # actual_crc
                    THEN InvalidCrc(expected_crc, actual_crc)
                    ELSE ChunkOk(new)

Chunk_try_from(value) ==
    IF InputTooSmall(value) THEN ChunkErr("InputTooSmall")
    ELSE
        LET at_length == split_at(value, DATA_LENGTH_BYTES)
            data_length == U32FromBeBytes(at_length[1])
            at_type == split_at(at_length[2], CHUNK_TYPE_BYTES)
            chunk_type == ChunkType_try_from(at_type[1]).tag
        IN  IF ~is_valid(chunk_type) THEN ChunkErr("InvalidChunkType")
            ELSE TakeData(chunk_type, data_length, at_type[2])

(***************************************************************************)
(* The state: the argument and the result of the last tag construction,    *)
(* the answers of the tag's queries, the chunk built from the tag, the     *)
(* bytes on the wire and the result of decoding them.                      *)
(***************************************************************************)
VARIABLES pc, arg, tagRes, flags, chunk, wire, result

vars == <<pc, arg, tagRes, flags, chunk, wire, result>>

NoArg == [kind |-> "none", val |-> <<>>]

NoFlags ==
    [asked |-> FALSE, critical |-> FALSE, public |-> FALSE,
     reserved_bit_valid |-> FALSE, safe_to_copy |-> FALSE, valid |-> FALSE]

Init ==
    /\ pc = "start"
    /\ arg = NoArg
    /\ tagRes = NoTagResult
    /\ flags = NoFlags
    /\ chunk = NoChunk
    /\ wire = <<>>
    /\ result = NoResult

\* ChunkType::from_str(s)
FromStr ==
    /\ pc = "start"
    /\ \E s \in SeqsUpTo(TextChars, MaxTextLen) :
        /\ arg' = [kind |-> "str", val |-> s]
        /\ tagRes' = from_str(s)
        /\ pc' = "tag"
        /\ UNCHANGED <<flags, chunk, wire, result>>

\* ChunkType::try_from(value)
TryFromBytes ==
    /\ pc = "start"
    /\ \E value \in [1..4 -> RawBytes] \cup ChunkTags :
        /\ arg' = [kind |-> "bytes", val |-> value]
        /\ tagRes' = ChunkType_try_from(value)
        /\ pc' = "tag"
        /\ UNCHANGED <<flags, chunk, wire, result>>

\* the queries of a tag
Query ==
    /\ pc = "tag"
    /\ tagRes.kind = "Ok"
    /\ ~flags.asked
    /\ flags' = [asked |-> TRUE,
                 critical |-> is_critical(tagRes.tag),
                 public |-> is_public(tagRes.tag),
                 reserved_bit_valid |-> is_reserved_bit_valid(tagRes.tag),
                 safe_to_copy |-> is_safe_to_copy(tagRes.tag),
                 valid |-> is_valid(tagRes.tag)]
    /\ UNCHANGED <<pc, arg, tagRes, chunk, wire, result>>

\* Chunk::new(chunk_type, data); the tag moves into the chunk
NewChunk ==
    /\ pc = "tag"
    /\ tagRes.kind = "Ok"
    /\ tagRes.tag.bytes \in ChunkTags
    /\ \E data \in SeqsUpTo(PayloadBytes, MaxPayload) :
        /\ chunk' = Chunk_new(tagRes.tag, data)
        /\ arg' = NoArg
        /\ tagRes' = NoTagResult
        /\ flags' = NoFlags
        /\ pc' = "chunk"
        /\ UNCHANGED <<wire, result>>

\* chunk.as_bytes()
AsBytes ==
    /\ pc = "chunk"
    /\ wire' = as_bytes(chunk)
    /\ pc' = "encoded"
    /\ UNCHANGED <<arg, tagRes, flags, chunk, result>>

\* the bytes of a later record follow the chunk's
AppendTrailing ==
    /\ pc \in {"encoded", "trailed"}
    /\ Len(wire) < METADATA_BYTES + Len(chunk.data) + MaxTrail
    /\ \E b \in TrailBytes :
        /\ wire' = Append(wire, b)
        /\ pc' = "trailed"
        /\ UNCHANGED <<arg, tagRes, flags, chunk, result>>

\* one byte of the input is overwritten
Corrupt ==
    /\ pc \in {"encoded", "trailed"}
    /\ \E i \in 1..Len(wire), b \in CorruptBytes :
        /\ wire[i] # b
        /\ wire' = [wire EXCEPT ![i] = b]
        /\ pc' = "mangled"
        /\ UNCHANGED <<arg, tagRes, flags, chunk, result>>

\* the input is cut short
Truncate ==
    /\ pc \in {"encoded", "trailed", "mangled"}
    /\ \E n \in 0..(Len(wire) - 1) :
        /\ wire' = SubSeq(wire, 1, n)
        /\ pc' = "cut"
        /\ UNCHANGED <<arg, tagRes, flags, chunk, result>>

\* Chunk::try_from(wire)
Decode ==
    /\ pc \in {"encoded", "trailed", "mangled", "cut"}
    /\ result' = Chunk_try_from(wire)
    /\ pc' = "done"
    /\ UNCHANGED <<arg, tagRes, flags, chunk, wire>>

Next ==
    \/ FromStr
    \/ TryFromBytes
    \/ Query
    \/ NewChunk
    \/ AsBytes
    \/ AppendTrailing
    \/ Corrupt
    \/ Truncate
    \/ Decode

Spec == Init /\ [][Next]_vars

(***************************************************************************)
(* The wire format, read off the bytes of an input b independently of the  *)
(* decoder: offsets are 1-based, L is the big-endian value of bytes 1..4.  *)
(***************************************************************************)
Letter(x) == x \in 65..90 \/ x \in 97..122

Bit5(x) == (x \div 32) % 2

TagBytesValid(t) == (\A i \in 1..4 : Letter(t[i])) /\ Bit5(t[3]) = 0

WireTagValid(b) == TagBytesValid(SubSeq(b, 5, 8))

WireLenHi(b) == (b[1] * 256) + b[2]

WireLenLo(b) == (b[3] * 256) + b[4]

\* L > n
DeclaredExceeds(b, n) ==
    \/ WireLenHi(b) > n \div 65536
    \/ WireLenHi(b) = n \div 65536 /\ WireLenLo(b) > n % 65536

\* L, when it is at most Len(b)
DeclaredLen(b) == (WireLenHi(b) * 65536) + WireLenLo(b)

\* n as four big-endian bytes
BE4(n) == <<(n \div 16777216) % 256, (n \div 65536) % 256, (n \div 256) % 256, n % 256>>

IsPrefix(p, b) == Len(p) <= Len(b) /\ SubSeq(b, 1, Len(p)) = p

\* the input holds a valid tag and at least L + 4 bytes after its header
Framed(b) ==
    /\ Len(b) >= 12
    /\ WireTagValid(b)
    /\ ~DeclaredExceeds(b, Len(b) - 12)

StoredCrc(b) == SubSeq(b, 9 + DeclaredLen(b), 12 + DeclaredLen(b))

ComputedCrc(b) == U32ToBeBytes(checksum_ieee(SubSeq(b, 5, 8 + DeclaredLen(b))))

(***************************************************************************)
(* C1 as stated: decoding the bytes of any chunk built by Chunk::new, with *)
(* any tag and any payload, succeeds and returns an equal chunk.           *)
(***************************************************************************)
C1_RoundTripAnyTag ==
    (pc = "done" /\ wire = as_bytes(chunk)) => result = ChunkOk(chunk)

(***************************************************************************)
(* C1 amended: decoding the bytes of a chunk built by Chunk::new with a    *)
(* valid tag and any payload succeeds and returns an equal chunk.          *)
(***************************************************************************)
C1_RoundTripValidTag ==
    (pc = "done" /\ wire = as_bytes(chunk) /\ TagBytesValid(chunk.chunk_type.bytes))
        => result = ChunkOk(chunk)

C1_Witness ==
    /\ pc = "done"
    /\ wire = as_bytes(chunk)
    /\ TagBytesValid(chunk.chunk_type.bytes)
    /\ Len(chunk.data) > 0
    /\ result = ChunkOk(chunk)

(***************************************************************************)
(* C2: an input of at least 12 bytes with a valid tag whose declared       *)
(* length L leaves fewer than L + 4 bytes after the header is rejected     *)
(* with an error value, TruncatedPayload when fewer than L bytes remain;   *)
(* decoding does not panic.                                                *)
(***************************************************************************)
C2_TruncatedIsTypedError ==
    (/\ pc = "done"
     /\ Len(wire) >= 12
     /\ WireTagValid(wire)
     /\ DeclaredExceeds(wire, Len(wire) - 12))
        => /\ result.kind = "Err"
           /\ DeclaredExceeds(wire, Len(wire) - 8) => result.err = "TruncatedPayload"

(***************************************************************************)
(* C3 as stated: a framed input is rejected exactly when its stored        *)
(* checksum differs from the CRC-32 of tag and payload, with               *)
(* InvalidCrc(expected, actual) where expected is the computed checksum    *)
(* and actual the stored one.                                              *)
(***************************************************************************)
C3_MismatchExpectedComputed ==
    (pc = "done" /\ Framed(wire)) =>
        IF StoredCrc(wire) # ComputedCrc(wire)
        THEN /\ result.kind = "Err"
             /\ result.err = "InvalidCrc"
             /\ U32ToBeBytes(result.expected) = ComputedCrc(wire)
             /\ U32ToBeBytes(result.actual) = StoredCrc(wire)
        ELSE result.kind = "Ok"

(***************************************************************************)
(* C3 amended: a framed input is rejected exactly when its stored checksum *)
(* differs from the CRC-32 of tag and payload, with                        *)
(* InvalidCrc(expected, actual) where expected is the stored checksum and  *)
(* actual the computed one.                                                *)
(***************************************************************************)
C3_MismatchExpectedStored ==
    (pc = "done" /\ Framed(wire)) =>
        IF StoredCrc(wire) # ComputedCrc(wire)
        THEN /\ result.kind = "Err"
             /\ result.err = "InvalidCrc"
             /\ U32ToBeBytes(result.expected) = StoredCrc(wire)
             /\ U32ToBeBytes(result.actual) = ComputedCrc(wire)
        ELSE result.kind = "Ok"

C3_Witness ==
    /\ pc = "done"
    /\ Framed(wire)
    /\ StoredCrc(wire) # ComputedCrc(wire)
    /\ result.err = "InvalidCrc"

(***************************************************************************)
(* C4: an input of 0 to 11 bytes is rejected with InputTooSmall and with   *)
(* nothing else; an input of exactly 12 bytes is not rejected with         *)
(* InputTooSmall.                                                          *)
(***************************************************************************)
C4_TooShort ==
    /\ (pc = "done" /\ Len(wire) < 12) => result = ChunkErr("InputTooSmall")
    /\ (pc = "done" /\ Len(wire) = 12) => result.err # "InputTooSmall"

C4_Witness ==
    /\ pc = "done"
    /\ Len(wire) = 11
    /\ result = ChunkErr("InputTooSmall")

(***************************************************************************)
(* C5: the bytes of a chunk with a valid tag, followed by any trailing     *)
(* bytes, decode to a chunk with the same tag bytes and the same payload.  *)
(***************************************************************************)
C5_TrailingIgnored ==
    (/\ pc = "done"
     /\ TagBytesValid(chunk.chunk_type.bytes)
     /\ IsPrefix(as_bytes(chunk), wire))
        => /\ result.kind = "Ok"
           /\ result.chunk.chunk_type.bytes = chunk.chunk_type.bytes
           /\ result.chunk.data = chunk.data

C5_Witness ==
    /\ pc = "done"
    /\ TagBytesValid(chunk.chunk_type.bytes)
    /\ IsPrefix(as_bytes(chunk), wire)
    /\ Len(wire) > Len(as_bytes(chunk))
    /\ result.kind = "Ok"

(***************************************************************************)
(* C6: as_bytes() is 12 + L bytes long: L as four big-endian bytes, the    *)
(* four bytes of the tag, the payload, the checksum as four big-endian     *)
(* bytes; length() is L.                                                   *)
(***************************************************************************)
C6_Layout ==
    pc = "encoded" =>
        LET L == Len(chunk.data)
        IN  /\ Len(wire) = 12 + L
            /\ SubSeq(wire, 1, 4) = BE4(L)
            /\ SubSeq(wire, 5, 8) = chunk.chunk_type.bytes
            /\ SubSeq(wire, 9, 8 + L) = chunk.data
            /\ SubSeq(wire, 9 + L, 12 + L) = U32ToBeBytes(crc(chunk))
            /\ length(chunk) = L

C6_Witness ==
    /\ pc = "encoded"
    /\ Len(chunk.data) > 0
    /\ Len(wire) = 12 + Len(chunk.data)

(***************************************************************************)
(* C7: from_str fails with ByteLengthError iff the text is not 4 bytes     *)
(* long, otherwise with InvalidCharacter iff a byte is not an ASCII        *)
(* letter, and otherwise gives the tag of the text's bytes, the one        *)
(* ChunkType::try_from gives; "Rust" is accepted and is not valid.         *)
(***************************************************************************)
C7_FromStr ==
    (pc = "tag" /\ arg.kind = "str") =>
        LET bs == str_as_bytes(arg.val)
            letters == \A i \in 1..Len(bs) : Letter(bs[i])
        IN  /\ (tagRes.kind = "Err" /\ tagRes.err = "ByteLengthError") <=> Len(bs) # 4
            /\ (tagRes.kind = "Err" /\ tagRes.err = "InvalidCharacter")
                    <=> (Len(bs) = 4 /\ ~letters)
            /\ (Len(bs) = 4 /\ letters) =>
                    /\ tagRes.kind = "Ok"
                    /\ tagRes.tag.bytes = bs
                    /\ tagRes = ChunkType_try_from(bs)
            /\ arg.val = <<82, 117, 115, 116>> =>
                    tagRes.kind = "Ok" /\ ~is_valid(tagRes.tag)

C7_Witness ==
    /\ pc = "tag"
    /\ arg = [kind |-> "str", val |-> <<82, 117, 115, 116>>]
    /\ tagRes.kind = "Ok"
    /\ tagRes.tag.bytes = <<82, 117, 115, 116>>

(***************************************************************************)
(* C8: an input of at least 12 bytes whose bytes 4..8 are not a valid tag  *)
(* is rejected with InvalidChunkType, whatever its declared length and     *)
(* its other bytes.                                                        *)
(***************************************************************************)
C8_InvalidTagFirst ==
    (pc = "done" /\ Len(wire) >= 12 /\ ~WireTagValid(wire))
        => result = ChunkErr("InvalidChunkType")

C8_Witness ==
    /\ pc = "done"
    /\ Len(wire) >= 12
    /\ ~WireTagValid(wire)
    /\ DeclaredExceeds(wire, Len(wire) - 8)
    /\ result = ChunkErr("InvalidChunkType")

(***************************************************************************)
(* C9: the construction from raw bytes succeeds and keeps the bytes, and   *)
(* the queries of a tag are the bit tests of its bytes: critical, public   *)
(* and reserved-bit-valid iff bit 5 of byte 0, 1, 2 is 0, safe-to-copy iff *)
(* bit 5 of byte 3 is 1, valid iff the bytes are letters and the reserved  *)
(* bit is valid.                                                           *)
(***************************************************************************)
C9_Queries ==
    /\ (pc = "tag" /\ arg.kind = "bytes") =>
            tagRes.kind = "Ok" /\ tagRes.tag.bytes = arg.val
    /\ flags.asked =>
            LET t == tagRes.tag.bytes
            IN  /\ flags.critical <=> Bit5(t[1]) = 0
                /\ flags.public <=> Bit5(t[2]) = 0
                /\ flags.reserved_bit_valid <=> Bit5(t[3]) = 0
                /\ flags.safe_to_copy <=> Bit5(t[4]) = 1
                /\ flags.valid <=>
                        ((\A i \in 1..4 : Letter(t[i])) /\ flags.reserved_bit_valid)

C9_Witness ==
    /\ flags.asked
    /\ arg.kind = "bytes"
    /\ flags.reserved_bit_valid
    /\ flags.safe_to_copy
    /\ ~flags.valid

(***************************************************************************)
(* C10: when decoding an input succeeds, the chunk has a valid tag, a      *)
(* payload of the declared length L, the checksum stored in the input, and *)
(* its as_bytes() are the first 12 + L bytes of the input.                 *)
(***************************************************************************)
C10_DecodedIsPrefix ==
    (pc = "done" /\ result.kind = "Ok") =>
        /\ Framed(wire)
        /\ TagBytesValid(result.chunk.chunk_type.bytes)
        /\ Len(result.chunk.data) = DeclaredLen(wire)
        /\ U32ToBeBytes(crc(result.chunk)) = StoredCrc(wire)
        /\ as_bytes(result.chunk) = SubSeq(wire, 1, 12 + DeclaredLen(wire))

C10_Witness ==
    /\ pc = "done"
    /\ result.kind = "Ok"
    /\ Len(result.chunk.data) > 0
    /\ Len(wire) > 12 + Len(result.chunk.data)

====
